---- MODULE Spec2Model ----
(***************************************************************************)
(* Model of python-services/ast_analyzer.py: the ASTVisitor traversal, the *)
(* SQL pattern matcher and classifier, the complexity calculator, the      *)
(* dependency resolver and analyze_file.                                   *)
(*                                                                         *)
(* A syntax tree is a sequence of nodes in source order: node i sits on    *)
(* line i, node.parent is the index of the enclosing node and 0 is the     *)
(* Module.  Texts that the code inspects character by character (call      *)
(* names, module paths) are sequences of one-character strings.            *)
(***************************************************************************)
EXTENDS Integers, Sequences, FiniteSets, TLC

VARIABLES content, parsed, tree, imports, hashseed, visitor, result, pc

vars == <<content, parsed, tree, imports, hashseed, visitor, result, pc>>

\* ---------------------------------------------------------------- bounds
\* statements in a tree
MaxNodes == 4
\* statements in the body of the function of SpecFunc
MaxBody == 4
\* nodes of a tree of SpecCx built from nothing
MaxCxNodes == 3
\* import records handed to identify_dependencies
MaxImports == 3
\* words and lines of the text handed to extract_sql_queries
MaxWords == 3
MaxLines == 2
\* statements of the tree of SpecFile
MaxFileNodes == 1

\* ---------------------------------------------------------------- texts
None == "None"

t_x == <<"x">>
t_self_y == <<"s", ".", "y">>
t_pd_r == <<"p", "d", ".", "r">>
t_os_r == <<"o", "s", ".", "r">>
t_pd == <<"p", "d">>
t_g == <<"g">>
t_np_r == <<"n", "p", ".", "r">>
t_os == <<"o", "s">>
t_os_p == <<"o", "s", ".", "p">>
t_a_b == <<"a", ".", "b">>
t_a_b_c == <<"a", ".", "b", ".", "c">>
t_a == <<"a">>
t_b == <<"b">>

\* self.data_libs
data_libs ==
  << <<"p", "a", "n", "d", "a", "s">>, <<"p", "d">>,
     <<"n", "u", "m", "p", "y">>, <<"n", "p">>,
     <<"s", "p", "a", "r", "k">>, <<"p", "y", "s", "p", "a", "r", "k">> >>

\* Python's `sub in s` on strings
Contains(sub, s) ==
  \E i \in 0..(Len(s) - Len(sub)) : SubSeq(s, i + 1, i + Len(sub)) = sub

\* any(lib in call_name for lib in self.data_libs)
is_data_call(call_name) ==
  \E k \in 1..Len(data_libs) : Contains(data_libs[k], call_name)

\* ---------------------------------------------------------------- trees
\* what ast.parse(content) does: it returns a tree (exc is None) or raises
Parsed == [exc |-> None, msg |-> ""]
Raised(e, m) == [exc |-> e, msg |-> m]

NoValue == [type |-> "Constant", func_type |-> None, func_text |-> <<>>]
CallValue(ft, text) == [type |-> "Call", func_type |-> ft, func_text |-> text]
NameTarget(text) == [type |-> "Name", text |-> text]
AttrTarget(text) == [type |-> "Attribute", text |-> text]

Stmt(k, p) ==
  [kind |-> k, name |-> None, parent |-> p, targets |-> <<>>,
   value |-> NoValue, names |-> <<>>, module |-> <<>>]

FunctionDef(nm, p) == [Stmt("FunctionDef", p) EXCEPT !.name = nm]
ClassDef(nm, p) == [Stmt("ClassDef", p) EXCEPT !.name = nm]
Assign(p, tg, val) == [Stmt("Assign", p) EXCEPT !.targets = tg, !.value = val]
Expr(p, val) == [Stmt("Expr", p) EXCEPT !.value = val]
Import(p, nms) == [Stmt("Import", p) EXCEPT !.names = nms]
ImportFrom(p, m, nms) == [Stmt("ImportFrom", p) EXCEPT !.module = m, !.names = nms]

\* node kinds whose fields hold a list of statements (body, orelse, handlers)
IsContainer(n) ==
  n.kind \notin {"Assign", "Expr", "Import", "ImportFrom",
                 "ListComp", "SetComp", "DictComp", "GeneratorExp", "IfExp"}

SeqRange(s) == {s[k] : k \in 1..Len(s)}

RECURSIVE Ancestors(_, _)
\* the nodes enclosing node i, nearest first (the Module, 0, is left out)
Ancestors(t, i) ==
  IF i = 0 THEN <<>>
  ELSE IF t[i].parent = 0 THEN <<>>
  ELSE <<t[i].parent>> \o Ancestors(t, t[i].parent)

\* the nodes under which the next statement in source order can sit
OpenParents(t) ==
  {0} \cup {j \in ({Len(t)} \cup SeqRange(Ancestors(t, Len(t)))) \ {0} :
              IsContainer(t[j])}

\* ast.parse, one statement at a time: the next statement in source order is
\* one of the forms F, placed under any node still open
parse_statement(t, F) ==
  {Append(t, [f EXCEPT !.parent = p]) : f \in F, p \in OpenParents(t)}

\* ast.iter_child_nodes restricted to statements: the body in source order
Children(t, i) ==
  SelectSeq([k \in 1..Len(t) |-> k], LAMBDA j : t[j].parent = i)

RECURSIVE bfs(_, _)
bfs(t, todo) ==
  IF todo = <<>> THEN <<>>
  ELSE <<Head(todo)>> \o bfs(t, Tail(todo) \o Children(t, Head(todo)))

\* ast.walk(node): breadth first, node itself first
walk(t, i) == bfs(t, <<i>>)

\* ---------------------------------------------------------------- ASTVisitor
\* list(xs) in place of list(set(xs))
list_no_set(xs, seed) == xs

\* list(set(xs)): the elements of xs once each, in the order the process's
\* string hashing gives them (hashseed ranks every text)
list_set(xs, seed) == SelectSeq(seed, LAMBDA x : x \in SeqRange(xs))

RECURSIVE collect_calls(_, _)
\* the loop of visit_FunctionDef over ast.walk(node): calls_made.append(...)
collect_calls(t, ids) ==
  IF ids = <<>> THEN <<>>
  ELSE LET val == IF Head(ids) = 0 THEN NoValue ELSE t[Head(ids)].value
       IN  (IF val.type = "Call" /\ val.func_type \in {"Name", "Attribute"}
            THEN <<val.func_text>> ELSE <<>>)
           \o collect_calls(t, Tail(ids))

RECURSIVE collect_data_operations(_, _)
\* the same loop: data_operations.append(call_name)
collect_data_operations(t, ids) ==
  IF ids = <<>> THEN <<>>
  ELSE LET val == IF Head(ids) = 0 THEN NoValue ELSE t[Head(ids)].value
       IN  (IF val.type = "Call" /\ val.func_type = "Attribute"
               /\ is_data_call(val.func_text)
            THEN <<val.func_text>> ELSE <<>>)
           \o collect_data_operations(t, Tail(ids))

\* FunctionInfo(...) as built by visit_FunctionDef (args, returns, docstring,
\* decorators and sql_queries do not bear on any checked property)
FunctionInfo(t, i, seed) ==
  [name |-> t[i].name,
   line_number |-> i,
   calls_made |-> list_set(collect_calls(t, walk(t, i)), seed),
   data_operations |-> list_set(collect_data_operations(t, walk(t, i)), seed)]

Truthy(c) == c # None /\ c # ""

ASTVisitor ==
  [functions |-> <<>>, classes |-> <<>>, imports |-> <<>>,
   global_variables |-> <<>>, data_operations |-> <<>>,
   current_class |-> None]

RECURSIVE name_targets(_)
\* [target.id for target in targets if isinstance(target, ast.Name)]
name_targets(tg) ==
  IF tg = <<>> THEN <<>>
  ELSE (IF Head(tg).type = "Name" THEN <<Head(tg).text>> ELSE <<>>)
       \o name_targets(Tail(tg))

RECURSIVE import_infos(_, _)
import_infos(nms, line) ==
  IF nms = <<>> THEN <<>>
  ELSE <<[module |-> Head(nms), names |-> <<Head(nms)>>, line_number |-> line]>>
       \o import_infos(Tail(nms), line)

RECURSIVE visit(_, _, _, _)
RECURSIVE generic_visit_body(_, _, _, _)
RECURSIVE class_body(_, _, _, _)

\* NodeVisitor.generic_visit(node): visit every child in order
generic_visit(t, v, i, seed) == generic_visit_body(t, v, Children(t, i), seed)

generic_visit_body(t, v, ids, seed) ==
  IF ids = <<>> THEN v
  ELSE generic_visit_body(t, visit(t, v, Head(ids), seed), Tail(ids), seed)

\* visit_FunctionDef: the visitor afterwards (v) and the returned func_info
visit_FunctionDef(t, v, i, seed) ==
  LET func_info == FunctionInfo(t, i, seed)
      v1 == IF Truthy(v.current_class) THEN v
            ELSE [v EXCEPT !.functions = Append(@, func_info)]
  IN  [v |-> generic_visit(t, v1, i, seed), ret |-> func_info]

\* the class-body loop with methods.insert(0, ...) in place of append
class_body_prepend(t, acc, ids, seed) ==
  IF ids = <<>> THEN acc
  ELSE LET c == Head(ids)
           nxt == IF t[c].kind = "FunctionDef"
                  THEN LET r == visit_FunctionDef(t, acc.v, c, seed)
                       IN  [acc EXCEPT !.v = r.v, !.methods = <<r.ret>> \o @]
                  ELSE IF t[c].kind = "Assign"
                  THEN [acc EXCEPT !.attributes = @ \o name_targets(t[c].targets)]
                  ELSE acc
       IN  class_body(t, nxt, Tail(ids), seed)

\* the loop of visit_ClassDef over node.body; acc carries the visitor and
\* the local lists methods and attributes
class_body(t, acc, ids, seed) ==
  IF ids = <<>> THEN acc
  ELSE LET c == Head(ids)
           nxt == IF t[c].kind = "FunctionDef"
                  THEN LET r == visit_FunctionDef(t, acc.v, c, seed)
                       IN  [acc EXCEPT !.v = r.v, !.methods = Append(@, r.ret)]
                  ELSE IF t[c].kind = "Assign"
                  THEN [acc EXCEPT !.attributes = @ \o name_targets(t[c].targets)]
                  ELSE acc
       IN  class_body(t, nxt, Tail(ids), seed)

\* visit_ClassDef that leaves current_class set on exit
visit_ClassDef_no_restore(t, v, i, seed) ==
  LET v1 == [v EXCEPT !.current_class = t[i].name]
      acc == class_body(t, [v |-> v1, methods |-> <<>>, attributes |-> <<>>],
                        Children(t, i), seed)
      class_info == [name |-> t[i].name, methods |-> acc.methods,
                     attributes |-> acc.attributes, line_number |-> i]
  IN  [acc.v EXCEPT !.classes = Append(@, class_info)]

visit_ClassDef(t, v, i, seed) ==
  LET old_class == v.current_class
      v1 == [v EXCEPT !.current_class = t[i].name]
      acc == class_body(t, [v |-> v1, methods |-> <<>>, attributes |-> <<>>],
                        Children(t, i), seed)
      class_info == [name |-> t[i].name, methods |-> acc.methods,
                     attributes |-> acc.attributes, line_number |-> i]
  IN  [acc.v EXCEPT !.classes = Append(@, class_info),
                    !.current_class = old_class]

visit_Import(t, v, i, seed) ==
  generic_visit(t, [v EXCEPT !.imports = @ \o import_infos(t[i].names, i)], i, seed)

visit_ImportFrom(t, v, i, seed) ==
  LET v1 == IF t[i].module # <<>>
            THEN [v EXCEPT !.imports = Append(@,
                     [module |-> t[i].module, names |-> t[i].names,
                      line_number |-> i])]
            ELSE v
  IN  generic_visit(t, v1, i, seed)

visit_Assign(t, v, i, seed) ==
  LET node == t[i]
      v1 == IF ~Truthy(v.current_class)
            THEN [v EXCEPT !.global_variables = @ \o name_targets(node.targets)]
            ELSE v
      v2 == IF node.value.type = "Call" /\ node.value.func_type = "Attribute"
               /\ is_data_call(node.value.func_text)
            THEN [v1 EXCEPT !.data_operations = Append(@,
                     [operation_type |-> "assignment",
                      target |-> IF node.targets # <<>> THEN node.targets[1].text
                                 ELSE <<"u", "n", "k", "n", "o", "w", "n">>,
                      method |-> node.value.func_text,
                      line_number |-> i])]
            ELSE v1
  IN  generic_visit(t, v2, i, seed)

\* NodeVisitor.visit(node): dispatch on the node's class
visit(t, v, i, seed) ==
  IF i = 0 THEN generic_visit(t, v, 0, seed)
  ELSE IF t[i].kind = "FunctionDef" THEN visit_FunctionDef(t, v, i, seed).v
  ELSE IF t[i].kind = "ClassDef" THEN visit_ClassDef(t, v, i, seed)
  ELSE IF t[i].kind = "Import" THEN visit_Import(t, v, i, seed)
  ELSE IF t[i].kind = "ImportFrom" THEN visit_ImportFrom(t, v, i, seed)
  ELSE IF t[i].kind = "Assign" THEN visit_Assign(t, v, i, seed)
  ELSE generic_visit(t, v, i, seed)

\* ---------------------------------------------------------------- SpecVisit
\* visitor = ASTVisitor(); visitor.visit(tree) on trees of functions, classes,
\* assignments and other compound statements ("If" stands for every statement
\* kind the visitor has no handler for: if/for/while/with/try/async def)
VisitForms ==
  { FunctionDef("f", 0), ClassDef("C", 0), Stmt("If", 0),
    Assign(0, <<NameTarget(t_x)>>, CallValue("Attribute", t_os_r)),
    Assign(0, <<NameTarget(t_x)>>, CallValue("Name", t_pd)),
    Assign(0, <<AttrTarget(t_self_y)>>, CallValue("Attribute", t_pd_r)) }

\* two opposite hash orders of the call texts above
VisitSeeds == { <<t_pd_r, t_os_r, t_pd>>, <<t_pd, t_os_r, t_pd_r>> }

InitVisit ==
  /\ tree = <<>>
  /\ hashseed \in VisitSeeds
  /\ content = None
  /\ parsed = Parsed
  /\ imports = <<>>
  /\ visitor = ASTVisitor
  /\ result = None
  /\ pc = "parse"

ParseVisit ==
  /\ pc = "parse"
  /\ Len(tree) < MaxNodes
  /\ tree' \in parse_statement(tree, VisitForms)
  /\ UNCHANGED <<content, parsed, imports, hashseed, visitor, result, pc>>

Visit ==
  /\ pc = "parse"
  /\ visitor' = visit(tree, visitor, 0, hashseed)
  /\ pc' = "visited"
  /\ UNCHANGED <<content, parsed, tree, imports, hashseed, result>>

NextVisit == ParseVisit \/ Visit

SpecVisit == InitVisit /\ [][NextVisit]_vars

\* ---- shapes of the tree the claims speak about
Ids(t) == [k \in 1..Len(t) |-> k]
Lines(rs) == [k \in 1..Len(rs) |-> rs[k].line_number]
Count(sq, x) == Cardinality({k \in 1..Len(sq) : sq[k] = x})

IsFunctionDef(t, i) == t[i].kind = "FunctionDef"
IsClassDef(t, i) == t[i].kind = "ClassDef"
DirectlyInClass(t, i) == t[i].parent # 0 /\ IsClassDef(t, t[i].parent)
EnclosedByClass(t, i) == \E a \in SeqRange(Ancestors(t, i)) : IsClassDef(t, a)
EnclosedByFunction(t, i) == \E a \in SeqRange(Ancestors(t, i)) : IsFunctionDef(t, a)
ModuleScope(t, i) == ~EnclosedByClass(t, i) /\ ~EnclosedByFunction(t, i)

RECURSIVE Reached(_, _)
\* the traversal calls a visit_* method on node i: it leaves a class body
\* only through the FunctionDef members
Reached(t, i) ==
  \/ i = 0
  \/ /\ Reached(t, t[i].parent)
     /\ (t[i].parent # 0 /\ IsClassDef(t, t[i].parent)) => IsFunctionDef(t, i)

MethodsOf(t, c) == SelectSeq(Children(t, c), LAMBDA j : IsFunctionDef(t, j))
RecordsOf(c) == {k \in 1..Len(visitor.classes) : visitor.classes[k].line_number = c}

\* C1: in any tree, every function declaration sitting directly in a class
\* body is once in that class's methods list and not in the functions list.
C1_MethodInClassNotTopLevel ==
  pc = "visited" =>
    \A i \in 1..Len(tree) :
      (IsFunctionDef(tree, i) /\ DirectlyInClass(tree, i)) =>
        /\ \E k \in RecordsOf(tree[i].parent) :
              Count(Lines(visitor.classes[k].methods), i) = 1
        /\ Count(Lines(visitor.functions), i) = 0

ModuleAssigns(t) ==
  SelectSeq(Ids(t), LAMBDA j : t[j].kind = "Assign" /\ ModuleScope(t, j))

RECURSIVE NameTargetsOf(_, _)
NameTargetsOf(t, ids) ==
  IF ids = <<>> THEN <<>>
  ELSE name_targets(t[Head(ids)].targets) \o NameTargetsOf(t, Tail(ids))

\* C3: global_variables holds the simple-name targets of the assignments at
\* module scope and nothing else; an assignment inside a function body, a
\* method body or a class body adds no entry.
C3_GlobalsOnlyModuleScope ==
  pc = "visited" =>
    visitor.global_variables = NameTargetsOf(tree, ModuleAssigns(tree))

IsDataAssign(t, i) ==
  /\ t[i].kind = "Assign"
  /\ t[i].value.type = "Call"
  /\ t[i].value.func_type = "Attribute"
  /\ \E k \in 1..Len(data_libs) : Contains(data_libs[k], t[i].value.func_text)

\* C4: in whatever scope it sits, an assignment whose value is a qualified
\* call containing a data-library marker gives exactly one "assignment"
\* record with the first target's text, the call text and the statement's line.
C4_DataAssignEveryScope ==
  pc = "visited" =>
    \A i \in 1..Len(tree) :
      IsDataAssign(tree, i) =>
        /\ Count(Lines(visitor.data_operations), i) = 1
        /\ \A k \in 1..Len(visitor.data_operations) :
             visitor.data_operations[k].line_number = i =>
               /\ visitor.data_operations[k].operation_type = "assignment"
               /\ visitor.data_operations[k].target = tree[i].targets[1].text
               /\ visitor.data_operations[k].method = tree[i].value.func_text

\* C10: the functions list is the function declarations enclosed by no class
\* declaration, once each and in source order, and current_class is None
\* again when the traversal has finished.
C10_ScopeRestored ==
  pc = "visited" =>
    /\ Lines(visitor.functions)
         = SelectSeq(Ids(tree), LAMBDA j : IsFunctionDef(tree, j)
                                           /\ ~EnclosedByClass(tree, j))
    /\ visitor.current_class = None

C10_Witness ==
  /\ pc = "visited"
  /\ Len(visitor.functions) >= 2
  /\ \E c \in 1..Len(tree) :
       /\ IsClassDef(tree, c)
       /\ EnclosedByFunction(tree, c)
       /\ \E m \in 1..Len(tree) : IsFunctionDef(tree, m) /\ tree[m].parent = c
       /\ \E g \in (c + 1)..Len(tree) :
            IsFunctionDef(tree, g) /\ ~EnclosedByClass(tree, g)

\* ---------------------------------------------------------------- SpecFunc
\* visit_FunctionDef on one module-level function whose body holds call
\* statements, some nested in compound statements, under every hash order
FuncForms ==
  { Stmt("If", 0), Expr(0, CallValue("Name", t_g)),
    Expr(0, CallValue("Attribute", t_pd_r)),
    Expr(0, CallValue("Attribute", t_np_r)) }

\* every order in which a set's iteration can yield the texts S
HashOrders(S) ==
  {s \in [1..Cardinality(S) -> S] : \A x \in S : \E k \in DOMAIN s : s[k] = x}

FuncSeeds == HashOrders({t_g, t_pd_r, t_np_r})

InitFunc ==
  /\ tree = <<FunctionDef("f", 0)>>
  /\ hashseed \in FuncSeeds
  /\ content = None
  /\ parsed = Parsed
  /\ imports = <<>>
  /\ visitor = ASTVisitor
  /\ result = None
  /\ pc = "parse"

ParseFunc ==
  /\ pc = "parse"
  /\ Len(tree) < 1 + MaxBody
  /\ \E t \in parse_statement(tree, FuncForms) :
       /\ t[Len(t)].parent # 0
       /\ tree' = t
  /\ UNCHANGED <<content, parsed, imports, hashseed, visitor, result, pc>>

NextFunc == ParseFunc \/ Visit

SpecFunc == InitFunc /\ [][NextFunc]_vars

RECURSIVE FirstOccurrences(_)
\* xs without its repetitions, each element where it first occurs
FirstOccurrences(xs) ==
  IF xs = <<>> THEN <<>>
  ELSE LET r == FirstOccurrences(SubSeq(xs, 1, Len(xs) - 1))
           x == xs[Len(xs)]
       IN  IF x \in SeqRange(r) THEN r ELSE Append(r, x)

NoDuplicates(xs) == \A a, b \in 1..Len(xs) : xs[a] = xs[b] => a = b

CallsWalked(t, i) == collect_calls(t, walk(t, i))
DataCallsWalked(t, i) == collect_data_operations(t, walk(t, i))

\* C7 (as stated): calls_made and data_operations of every FunctionRecord
\* hold no duplicates and are in order of first occurrence in the walk of
\* the function's sub-tree.
C7_InsertionOrder ==
  pc = "visited" =>
    \A k \in 1..Len(visitor.functions) :
      LET f == visitor.functions[k]
      IN  /\ f.calls_made = FirstOccurrences(CallsWalked(tree, f.line_number))
          /\ f.data_operations
               = FirstOccurrences(DataCallsWalked(tree, f.line_number))

\* C7 (amended): calls_made and data_operations of every FunctionRecord hold
\* no duplicates and hold exactly the names met in the walk of the function's
\* sub-tree; their order is unspecified.
C7_NoDuplicates ==
  pc = "visited" =>
    \A k \in 1..Len(visitor.functions) :
      LET f == visitor.functions[k]
      IN  /\ NoDuplicates(f.calls_made)
          /\ NoDuplicates(f.data_operations)
          /\ SeqRange(f.calls_made) = SeqRange(CallsWalked(tree, f.line_number))
          /\ SeqRange(f.data_operations)
               = SeqRange(DataCallsWalked(tree, f.line_number))

C7_Witness ==
  /\ pc = "visited"
  /\ \E k \in 1..Len(visitor.functions) :
       LET f == visitor.functions[k]
       IN  /\ Len(f.calls_made) = 3
           /\ Len(f.data_operations) = 2
           /\ Len(CallsWalked(tree, f.line_number)) > 3
           /\ f.calls_made # FirstOccurrences(CallsWalked(tree, f.line_number))

\* ---------------------------------------------------------------- SpecCx
RECURSIVE complexity_loop(_, _, _)
\* calculate_cyclomatic_complexity with the ast.With branch left out
complexity_loop_no_with(t, ids, complexity) ==
  IF ids = <<>> THEN complexity
  ELSE LET kind == IF Head(ids) = 0 THEN "Module" ELSE t[Head(ids)].kind
           c == IF kind \in {"If", "While", "For", "AsyncFor"} THEN complexity + 1
                ELSE IF kind = "ExceptHandler" THEN complexity + 1
                ELSE IF kind \in {"ListComp", "SetComp", "DictComp", "GeneratorExp"}
                THEN complexity + 1
                ELSE complexity
       IN  complexity_loop(t, Tail(ids), c)

\* the loop of calculate_cyclomatic_complexity over ast.walk(tree)
complexity_loop(t, ids, complexity) ==
  IF ids = <<>> THEN complexity
  ELSE LET kind == IF Head(ids) = 0 THEN "Module" ELSE t[Head(ids)].kind
           c == IF kind \in {"If", "While", "For", "AsyncFor"} THEN complexity + 1
                ELSE IF kind = "ExceptHandler" THEN complexity + 1
                ELSE IF kind = "With" THEN complexity + 1
                ELSE IF kind \in {"ListComp", "SetComp", "DictComp", "GeneratorExp"}
                THEN complexity + 1
                ELSE complexity
       IN  complexity_loop(t, Tail(ids), c)

calculate_cyclomatic_complexity(t) == complexity_loop(t, walk(t, 0), 1)

\* the node classes the calculator counts and some it does not
CxForms ==
  { Stmt(k, 0) : k \in {"If", "While", "For", "AsyncFor", "ExceptHandler", "With",
                        "ListComp", "SetComp", "DictComp", "GeneratorExp",
                        "Try", "AsyncWith", "IfExp", "Expr"} }

\* an if, a for and a try with one except clause
IfForTry ==
  << Stmt("If", 0), Stmt("For", 0), Stmt("Try", 0), Stmt("ExceptHandler", 3) >>

InitCx ==
  /\ tree \in {<<>>, IfForTry}
  /\ hashseed = <<>>
  /\ content = None
  /\ parsed = Parsed
  /\ imports = <<>>
  /\ visitor = ASTVisitor
  /\ result = None
  /\ pc = "parse"

ParseCx ==
  /\ pc = "parse"
  /\ Len(tree) < MaxCxNodes
  /\ tree' \in parse_statement(tree, CxForms)
  /\ UNCHANGED <<content, parsed, imports, hashseed, visitor, result, pc>>

Measure ==
  /\ pc = "parse"
  /\ result' = calculate_cyclomatic_complexity(tree)
  /\ pc' = "measured"
  /\ UNCHANGED <<content, parsed, tree, imports, hashseed, visitor>>

NextCx == ParseCx \/ Measure

SpecCx == InitCx /\ [][NextCx]_vars

DecisionKinds ==
  {"If", "While", "For", "AsyncFor", "ExceptHandler", "With",
   "ListComp", "SetComp", "DictComp", "GeneratorExp"}

RECURSIVE split(_, _)
\* str.split(sep) for a one-character sep: the pieces between the separators
split(text, sep) ==
  IF \A k \in 1..Len(text) : text[k] # sep THEN <<text>>
  ELSE LET first == CHOOSE k \in 1..Len(text) :
                      text[k] = sep /\ \A j \in 1..(k - 1) : text[j] # sep
       IN  <<SubSeq(text, 1, first - 1)>>
           \o split(SubSeq(text, first + 1, Len(text)), sep)

RECURSIVE dependency_roots(_)
\* the loop of identify_dependencies: dependencies.add(module.split('.')[0])
dependency_roots(imps) ==
  IF imps = <<>> THEN <<>>
  ELSE <<split(Head(imps).module, ".")[1]>> \o dependency_roots(Tail(imps))

\* identify_dependencies returning the roots without the set
identify_dependencies_no_set(imps, seed) == dependency_roots(imps)

identify_dependencies(imps, seed) == list_set(dependency_roots(imps), seed)

ImportInfo(m, line) == [module |-> m, names |-> <<m>>, line_number |-> line]

DepModules == {t_os, t_os_p, t_a_b, t_a_b_c, t_b}

DepSeeds == HashOrders({t_os, t_a, t_b})

InitDep ==
  /\ tree = <<>>
  /\ hashseed \in DepSeeds
  /\ content = None
  /\ parsed = Parsed
  /\ imports = <<>>
  /\ visitor = ASTVisitor
  /\ result = None
  /\ pc = "collect"

\* the caller's list of ImportInfo records grows by one
CollectImport ==
  /\ pc = "collect"
  /\ Len(imports) < MaxImports
  /\ \E m \in DepModules : imports' = Append(imports, ImportInfo(m, Len(imports) + 1))
  /\ UNCHANGED <<content, parsed, tree, hashseed, visitor, result, pc>>

IdentifyDependencies ==
  /\ pc = "collect"
  /\ result' = identify_dependencies(imports, hashseed)
  /\ pc' = "resolved"
  /\ UNCHANGED <<content, parsed, tree, imports, hashseed, visitor>>

NextDep == CollectImport \/ IdentifyDependencies

SpecDep == InitDep /\ [][NextDep]_vars

\* r is the part of m before its first dot (all of m when it has none)
IsFirstSegment(r, m) ==
  /\ Len(r) <= Len(m)
  /\ SubSeq(m, 1, Len(r)) = r
  /\ \A k \in 1..Len(r) : r[k] # "."
  /\ Len(r) = Len(m) \/ m[Len(r) + 1] = "."

\* C9: the list identify_dependencies returns has no duplicates, each entry
\* is the first dot-separated segment of some import's module, and the first
\* segment of every import's module is in the list.
C9_DependencyRoots ==
  pc = "resolved" =>
    /\ NoDuplicates(result)
    /\ \A k \in 1..Len(result) :
         \E j \in 1..Len(imports) : IsFirstSegment(result[k], imports[j].module)
    /\ \A j \in 1..Len(imports) :
         \E k \in 1..Len(result) : IsFirstSegment(result[k], imports[j].module)

C9_Witness ==
  /\ pc = "resolved"
  /\ Len(imports) = 3
  /\ Len(result) = 2
  /\ \E j \in 1..Len(imports) : imports[j].module \notin SeqRange(result)

\* ---------------------------------------------------------------- SpecSql
\* The text is a sequence of lines and a line a sequence of words (maximal
\* runs of non-blank characters), so \s+ is the gap between two words and \w+
\* a word; the patterns are matched word by word.

\* str.upper() on the words of the model
Upper(w) ==
  IF w = "select" THEN "SELECT"
  ELSE IF w = "t" THEN "T"
  ELSE w

\* self.sql_patterns[k] tried at word i of line: the index of the last word
\* of the match, 0 when the pattern does not match there
match_end(k, line, i) ==
  LET U(j) == IF j \in 1..Len(line) THEN Upper(line[j]) ELSE ""
      three(a, b) == IF U(i) = a /\ U(i + 1) = b /\ i + 2 <= Len(line)
                     THEN i + 2 ELSE 0
  IN  IF k = 1
      THEN \* SELECT\s+.*?FROM\s+\w+ : the lazy .*? stops at the first FROM
           \* that a word follows
           IF U(i) = "SELECT"
              /\ \E j \in (i + 1)..(Len(line) - 1) : U(j) = "FROM"
           THEN 1 + CHOOSE j \in (i + 1)..(Len(line) - 1) :
                      /\ U(j) = "FROM"
                      /\ \A h \in (i + 1)..(j - 1) : U(h) # "FROM"
           ELSE 0
      ELSE IF k = 2 THEN three("INSERT", "INTO")
      ELSE IF k = 3
      THEN IF U(i) = "UPDATE" /\ i + 2 <= Len(line) /\ U(i + 2) = "SET"
           THEN i + 2 ELSE 0
      ELSE IF k = 4 THEN three("DELETE", "FROM")
      ELSE IF k = 5 THEN three("CREATE", "TABLE")
      ELSE three("DROP", "TABLE")

RECURSIVE findall(_, _, _)
\* pattern.findall(line): the matches from word `from` on, leftmost first,
\* none overlapping
findall(k, line, from) ==
  IF \A i \in from..Len(line) : match_end(k, line, i) = 0 THEN <<>>
  ELSE LET i == CHOOSE a \in from..Len(line) :
                  /\ match_end(k, line, a) # 0
                  /\ \A b \in from..(a - 1) : match_end(k, line, b) = 0
       IN  <<SubSeq(line, i, match_end(k, line, i))>>
           \o findall(k, line, match_end(k, line, i) + 1)

\* sqlparse's token type of a word: its keyword table gives SELECT, INSERT,
\* UPDATE and DELETE the type Keyword.DML and CREATE and DROP Keyword.DDL
ttype(w) ==
  IF Upper(w) \in {"SELECT", "INSERT", "UPDATE", "DELETE"} THEN "DML"
  ELSE IF Upper(w) \in {"CREATE", "DROP"} THEN "DDL"
  ELSE IF Upper(w) \in {"FROM", "INTO", "SET", "TABLE"} THEN "Keyword"
  ELSE "Name"

RECURSIVE first_dml(_)
\* for token in parsed.tokens: if token.ttype is DML: ...; break
first_dml(tokens) ==
  IF tokens = <<>> THEN "UNKNOWN"
  ELSE IF ttype(Head(tokens)) = "DML" THEN Upper(Head(tokens))
  ELSE first_dml(Tail(tokens))

\* extract_tables_and_columns: get_name() of every identifier, as a set
extract_tables(tokens) ==
  list_set(SelectSeq(tokens, LAMBDA w : ttype(w) = "Name"), <<"t">>)

analyze_sql_query(query) ==
  IF query = <<>>
  THEN [type |-> "UNKNOWN", tables |-> <<>>, columns |-> <<>>]
  ELSE [type |-> first_dml(query), tables |-> extract_tables(query),
        columns |-> <<>>]

RECURSIVE queries_of_matches(_, _, _)
queries_of_matches(matches, lines, i) ==
  IF matches = <<>> THEN <<>>
  ELSE LET query_info == analyze_sql_query(Head(matches))
       IN  <<[query |-> Head(matches), query_type |-> query_info.type,
              tables |-> query_info.tables, columns |-> query_info.columns,
              line_number |-> i, context |-> lines[i]]>>
           \o queries_of_matches(Tail(matches), lines, i)

RECURSIVE queries_of_line(_, _, _)
\* for pattern in self.sql_patterns, from pattern k on
queries_of_line(lines, i, k) ==
  IF k > 6 THEN <<>>
  ELSE queries_of_matches(findall(k, lines[i], 1), lines, i)
       \o queries_of_line(lines, i, k + 1)

RECURSIVE queries_from(_, _)
\* for i, line in enumerate(lines), from line i on
queries_from(lines, i) ==
  IF i > Len(lines) THEN <<>>
  ELSE queries_of_line(lines, i, 1) \o queries_from(lines, i + 1)

extract_sql_queries(text) == queries_from(text, 1)

SqlWords ==
  {"SELECT", "select", "INSERT", "INTO", "UPDATE", "SET", "DELETE", "FROM",
   "CREATE", "DROP", "TABLE", "t"}

WordCount(text) ==
  Cardinality({<<i, j>> \in (1..Len(text)) \X (1..MaxWords) : j <= Len(text[i])})

\* one more word of the text is read
read_word(text, W) ==
  {[text EXCEPT ![Len(text)] = Append(@, w)] : w \in W}

InitSql ==
  /\ tree = <<>>
  /\ hashseed = <<>>
  /\ content = << <<>> >>
  /\ parsed = Parsed
  /\ imports = <<>>
  /\ visitor = ASTVisitor
  /\ result = None
  /\ pc = "read"

ReadSqlWord ==
  /\ pc = "read"
  /\ WordCount(content) < MaxWords
  /\ content' \in read_word(content, SqlWords)
  /\ UNCHANGED <<parsed, tree, imports, hashseed, visitor, result, pc>>

ReadNewline ==
  /\ pc = "read"
  /\ Len(content) < MaxLines
  /\ content' = Append(content, <<>>)
  /\ UNCHANGED <<parsed, tree, imports, hashseed, visitor, result, pc>>

ExtractSqlQueries ==
  /\ pc = "read"
  /\ result' = extract_sql_queries(content)
  /\ pc' = "extracted"
  /\ UNCHANGED <<content, parsed, tree, imports, hashseed, visitor>>

NextSql == ReadSqlWord \/ ReadNewline \/ ExtractSqlQueries

SpecSql == InitSql /\ [][NextSql]_vars

\* C8: the verb of every QueryRecord is the leading verb keyword
\* of its matched text (SELECT, INSERT, UPDATE, DELETE, CREATE or DROP), never
\* UNKNOWN, whatever table extraction yields.
C8_VerbIsLeadingKeyword ==
  pc = "extracted" =>
    \A k \in 1..Len(result) :
      /\ result[k].query_type = Upper(result[k].query[1])
      /\ result[k].query_type
           \in {"SELECT", "INSERT", "UPDATE", "DELETE", "CREATE", "DROP"}

\* ---------------------------------------------------------------- SpecFile
IsBlank(line) == line = <<>>
IsComment(line) == line # <<>> /\ line[1] = "#"
CountNodes(t, kinds) ==
  Len(SelectSeq(walk(t, 0), LAMBDA i : i # 0 /\ t[i].kind \in kinds))

calculate_complexity_metrics(t, text) ==
  [lines_of_code |->
     Cardinality({i \in 1..Len(text) : ~IsBlank(text[i]) /\ ~IsComment(text[i])}),
   total_lines |-> Len(text),
   comment_lines |-> Cardinality({i \in 1..Len(text) : IsComment(text[i])}),
   function_count |-> CountNodes(t, {"FunctionDef"}),
   class_count |-> CountNodes(t, {"ClassDef"}),
   cyclomatic_complexity |-> calculate_cyclomatic_complexity(t),
   import_count |-> CountNodes(t, {"Import", "ImportFrom"})]

\* the except SyntaxError branch of analyze_file
degraded_result(e) ==
  [functions |-> <<>>, classes |-> <<>>, imports |-> <<>>,
   global_variables |-> <<>>, data_operations |-> <<>>, sql_queries |-> <<>>,
   complexity_metrics |-> [error |-> e], dependencies |-> <<>>]

\* analyze_file whose except branch still runs the text matcher
analyze_file_leaky(text, p, t, seed) ==
  IF p.exc = "SyntaxError"
  THEN [degraded_result(p.msg) EXCEPT !.sql_queries = extract_sql_queries(text)]
  ELSE LET v == visit(t, ASTVisitor, 0, seed)
       IN  [functions |-> v.functions, classes |-> v.classes,
            imports |-> v.imports, global_variables |-> v.global_variables,
            data_operations |-> v.data_operations,
            sql_queries |-> extract_sql_queries(text),
            complexity_metrics |-> calculate_complexity_metrics(t, text),
            dependencies |-> identify_dependencies(v.imports, seed)]

\* the value analyze_file returns when ast.parse returned t or raised
\* SyntaxError (any other exception leaves analyze_file, see AnalyzeFile)
analyze_file(text, p, t, seed) ==
  IF p.exc = "SyntaxError"
  THEN degraded_result(p.msg)
  ELSE LET v == visit(t, ASTVisitor, 0, seed)
       IN  [functions |-> v.functions, classes |-> v.classes,
            imports |-> v.imports, global_variables |-> v.global_variables,
            data_operations |-> v.data_operations,
            sql_queries |-> extract_sql_queries(text),
            complexity_metrics |-> calculate_complexity_metrics(t, text),
            dependencies |-> identify_dependencies(v.imports, seed)]

FileWords == {"SELECT", "FROM", "t", "#"}

FileForms ==
  { FunctionDef("f", 0), Import(0, <<t_os_p>>),
    ImportFrom(0, t_a_b, <<t_x>>),
    Assign(0, <<NameTarget(t_x)>>, CallValue("Attribute", t_pd_r)) }

FileSeeds == { <<t_pd_r, t_os, t_a>>, <<t_a, t_os, t_pd_r>> }

\* the parser's verdicts: a tree, a syntax error with its message, or the
\* recursion limit hit while the tree of a valid text is built
ParseOutcomes ==
  { Parsed,
    Raised("SyntaxError", "invalid syntax (<unknown>, line 1)"),
    Raised("RecursionError",
           "maximum recursion depth exceeded during ast construction") }

InitFile ==
  /\ content = << <<>> >>
  /\ parsed \in ParseOutcomes
  /\ tree = <<>>
  /\ hashseed \in FileSeeds
  /\ imports = <<>>
  /\ visitor = ASTVisitor
  /\ result = None
  /\ pc = "read"

ReadFileWord ==
  /\ pc = "read"
  /\ WordCount(content) < MaxWords
  /\ content' \in read_word(content, FileWords)
  /\ UNCHANGED <<parsed, tree, imports, hashseed, visitor, result, pc>>

\* a statement of the tree of a text that parses; a statement takes a line
ParseFile ==
  /\ pc = "read"
  /\ parsed.exc = None
  /\ Len(tree) < MaxFileNodes
  /\ Len(tree) < Len(content)
  /\ tree' \in parse_statement(tree, FileForms)
  /\ UNCHANGED <<content, parsed, imports, hashseed, visitor, result, pc>>

AnalyzeFile ==
  /\ pc = "read"
  /\ IF parsed.exc \in {None, "SyntaxError"}
     THEN /\ result' = analyze_file(content, parsed, tree, hashseed)
          /\ pc' = "returned"
     ELSE /\ result' = None
          /\ pc' = "raised"
  /\ visitor' = IF parsed.exc = None THEN visit(tree, ASTVisitor, 0, hashseed)
                ELSE visitor
  /\ UNCHANGED <<content, parsed, tree, imports, hashseed>>

NextFile == ReadFileWord \/ ReadNewline \/ ParseFile \/ AnalyzeFile

SpecFile == InitFile /\ [][NextFile]_vars

====
